---- MODULE Spec2Model ----
(***************************************************************************)
(* Model of the ultrasound data capture pipeline                           *)
(* (src/classes/DataCaptureDisplay.py).                                    *)
(*                                                                         *)
(* The main (GUI) thread handles one event at a time; toggleRecording is   *)
(* split at its statements because the stage threads run while it runs.    *)
(* Each stage thread (getFramesThread, resizeFramesThread,                 *)
(* saveFramesThread) takes one step per source statement that reads or     *)
(* writes a field shared with another thread.  time.sleep() is a point     *)
(* where the other threads may take any number of steps: the model is      *)
(* untimed, so a sleep gives no guarantee about what the others have done. *)
(*                                                                         *)
(* Frames are identified by the number of the successful getFrame() call   *)
(* that produced them; acceleration and quaternion carry, next to their    *)
(* value, the number of the acquisition that stored them.                  *)
(***************************************************************************)
EXTENDS Integers, Sequences, FiniteSets, TLC

\* Bounds of the model.
MaxTasks == 1       \* worker slots per stage in the thread pool
MaxAcq == 2         \* successful getFrame() calls
MaxSessions == 2    \* recording directories created
PoolTasks == 2      \* worker slots per stage where reconnecting is studied
MaxMsgs == 2        \* quaternion messages the battery tester counts
MaxClock == 2       \* readings of the battery tester's clock
MaxTests == 2       \* drain tests started

\* The image of a failed getFrame() and the initial frameRaw (None).
NoFrame == 0
\* No recording directory / data file yet (None).
NoSession == 0


VARIABLES
    \* main thread and GUI
    running,              \* the main window is open (run() has not returned)
    ctl,                  \* position of the main thread
    enableRecording,
    enableEditing,
    enableDisplay,
    recordBtnDisabled,    \* -BUTTON-RECORD-TOGGLE- disabled
    editBtnDisabled,      \* -BUTTON-EDIT-TOGGLE- disabled
    \* frame grabber and IMU
    isConnected,          \* frameGrabber.isConnected
    imuConnected,         \* imu.isConnected
    imuData,              \* imu.acceleration and imu.quaternion: "absent" (None) or "val"
    \* recording session
    currentRecordingPath, \* number of the recording directory, NoSession if None
    currentDataFile,      \* [id, open]: the handle of directory id's data.txt
    frameGrabCounter,
    \* fields shared by the stage threads
    frameRaw,
    acceleration,
    quaternion,
    saveFrame,
    resizeFrame,
    \* stage threads, one record per pool slot
    acq,
    rsz,
    sav,
    \* history
    seq,                  \* successful getFrame() calls so far
    sessions,             \* recording directories created so far
    logLines,             \* lines written to the data file of the current recording
    imageFiles,           \* images written to the current recording directory
    lastLogged,           \* the newest frame that has a line in that data file
    \* the tools next to the main program
    tester,               \* the fields of ImuBatterLifeTest (src/extra/imuBatteryLifeTest.py)
    menu                  \* the fields of a Menu object (src/classes/Menu.py)

\* The worker slots of the thread pool (per stage).
Tasks == DOMAIN acq

ctlVars == <<running, ctl, enableRecording, enableEditing, enableDisplay,
             recordBtnDisabled, editBtnDisabled>>
devVars == <<isConnected, imuConnected, imuData>>
sessVars == <<currentRecordingPath, currentDataFile, frameGrabCounter>>
slotVars == <<frameRaw, acceleration, quaternion, saveFrame, resizeFrame>>
taskVars == <<acq, rsz, sav>>
histVars == <<seq, sessions, logLines, imageFiles, lastLogged>>
mainVars == <<ctlVars, devVars, sessVars, slotVars, taskVars, histVars>>
toolVars == <<tester, menu>>
vars == <<mainVars, toolVars>>

\* A value of self.acceleration / self.quaternion: what was stored and by
\* which acquisition (src = NoFrame: the constructor's None).
Sample(n, v) == [src |-> n, val |-> v]

\* A getFramesThread slot: position, the frame of the iteration under way,
\* the number of rate signals the iteration has sent, and the rate signal the
\* thread sent after its loop ("none": it has not, or it returned without).
AcqIdle == [pc |-> "off", n |-> NoFrame, sig |-> 0, bye |-> "none"]
AcqTop == [pc |-> "check", n |-> NoFrame, sig |-> 0, bye |-> "none"]
RszIdle == [pc |-> "off", bye |-> "none"]
RszTop == [pc |-> "check", bye |-> "none"]
SavIdle == [pc |-> "off", name |-> 0, frame |-> NoFrame,
            acc |-> Sample(NoFrame, "absent"), quat |-> Sample(NoFrame, "absent"),
            log |-> FALSE, img |-> FALSE, bye |-> "none"]

(***************************************************************************)
(* Menu (src/classes/Menu.py)                                              *)
(***************************************************************************)
\* A menu is its title and the sequence of its entries; an entry that starts
\* with "!" is disabled, and the text after "::" is the entry's event key.
\* The lists of sources, dimensions and rates come from constants.py and are
\* written as one entry each.

\* __generateSignalMenu with the first test only (without lines 56-66): the
\* menu of a connected source is never built.
generateSignalMenu_OnlyConnect(m) ==
    IF ~m.frameGrabberConnected
    THEN [m EXCEPT !.signalMenu =
             <<"Signal Source",
               <<"Connect to Source", "0..SIGNAL_SOURCES::-MENU-SIGNAL-CONNECT-",
                 "---", "!Change Signal Dimensions">> >>]
    ELSE m

\* lines 51-66: the two tests of self.frameGrabberConnected, one after the other.
generateSignalMenu(m) ==
    LET m1 == IF ~m.frameGrabberConnected
              THEN [m EXCEPT !.signalMenu =
                       <<"Signal Source",
                         <<"Connect to Source", "0..SIGNAL_SOURCES::-MENU-SIGNAL-CONNECT-",
                           "---", "!Change Signal Dimensions">> >>]
              ELSE m
    IN  IF m1.frameGrabberConnected
        THEN [m1 EXCEPT !.signalMenu =
                 <<"Signal Source",
                   <<"Disconnect from Source::-MENU-SIGNAL-DISCONNECT-", "---",
                     "Change Signal Dimensions",
                     "COMMON_SIGNAL_DIMENSIONS::-MENU-SIGNAL-DIMENSIONS-">> >>]
        ELSE m1

\* lines 79-90: the two tests of self.imuConnected.
generateImuMenu(m) ==
    LET m1 == IF ~m.imuConnected
              THEN [m EXCEPT !.imuImenu =
                       <<"IMU",
                         <<"Connect::-MENU-IMU-CONNECT-", "---", "!Set Return Rate",
                           "!Calibrate Acceleration::-MENU-IMU-CALIBRATE-">> >>]
              ELSE m
    IN  IF m1.imuConnected
        THEN [m1 EXCEPT !.imuImenu =
                 <<"IMU",
                   <<"Disconnect::-MENU-IMU-DISCONNECT-", "---", "Set Return Rate",
                     "IMU_RATE_OPTIONS::-MENU-IMU-RATE-",
                     "Calibrate Acceleration::-MENU-IMU-CALIBRATE-">> >>]
        ELSE m1

\* lines 92-100: the signal menu, then the IMU menu.
generateMenus(m) == generateImuMenu(generateSignalMenu(m))

\* lines 8-15: __init__.  menuFinal is what the last getMenu call returned
\* (the empty tuple before the first call).
MenuInit ==
    generateMenus([frameGrabberConnected |-> FALSE, imuConnected |-> FALSE,
                   signalMenu |-> <<>>, imuImenu |-> <<>>, menuFinal |-> <<>>])

\* lines 17-38: getMenu stores its arguments (imuConnectedArg is the
\* parameter imuConnected), regenerates both menus and returns them.
getMenu(frameGrabberConnected, imuConnectedArg) ==
    /\ LET m == generateMenus([menu EXCEPT !.frameGrabberConnected = frameGrabberConnected,
                                            !.imuConnected = imuConnectedArg])
       IN  menu' = [m EXCEPT !.menuFinal = <<m.signalMenu, m.imuImenu>>]
    /\ UNCHANGED tester
    /\ UNCHANGED mainVars

(***************************************************************************)
(* IMU battery-life tester (src/extra/imuBatteryLifeTest.py)               *)
(***************************************************************************)
\* The main thread of the tester handles one event at a time.  imuCallback
\* runs on the thread of the IMU library, one message at a time, and takes
\* one step per statement that touches a field the main thread also uses.

\* lines 24-47 and the layout (lines 122-128, 174-181): the tester after
\* __init__.  now is the clock; cb and cbLoad are the position of
\* imuCallback and the counter value its += has loaded; summaryLines is the
\* number of summaries in DrainTests.txt; tests counts the tests started.
TesterInit ==
    [testing |-> FALSE, drainTestsFile |-> "None", imuTestCounter |-> 0,
     testStartTime |-> 0, testLastMessageTime |-> 0,
     isConnected |-> FALSE,
     acceleration |-> "None", quaternion |-> "None", angle |-> "None",
     startDisabled |-> TRUE, stopDisabled |-> TRUE, connectDisabled |-> FALSE,
     cb |-> "idle", cbLoad |-> 0,
     now |-> 0, summaryLines |-> 0, tests |-> 0]

\* dt.now() returns a later time.
TesterTick ==
    /\ tester.now < MaxClock
    /\ tester' = [tester EXCEPT !.now = @ + 1]
    /\ UNCHANGED menu
    /\ UNCHANGED mainVars

\* '-BUTTON-IMU-CONNECT-', lines 231-261: connect (wm.IMU(...) succeeds or
\* raises) or disconnect; the Start button follows the connection.
toggleImuConnect(ok) ==
    /\ ~tester.connectDisabled
    /\ tester' = [tester EXCEPT
                     !.isConnected = IF tester.isConnected THEN FALSE ELSE ok,
                     !.startDisabled = ~(IF tester.isConnected THEN FALSE ELSE ok)]
    /\ UNCHANGED menu
    /\ UNCHANGED mainVars

\* toggleTest whose stop writes the summary but neither closes the file nor
\* clears the handle (without lines 209-210).
toggleTest_KeepsHandle ==
    /\ ~tester.startDisabled \/ ~tester.stopDisabled
    /\ tester.testing \/ tester.tests < MaxTests
    /\ tester' = IF ~tester.testing
                 THEN [tester EXCEPT !.testing = TRUE, !.drainTestsFile = "open",
                                     !.summaryLines = 0, !.imuTestCounter = 0,
                                     !.testStartTime = tester.now,
                                     !.startDisabled = TRUE, !.stopDisabled = FALSE,
                                     !.connectDisabled = TRUE, !.tests = @ + 1]
                 ELSE [tester EXCEPT !.testing = FALSE, !.summaryLines = @ + 1,
                                     !.startDisabled = FALSE, !.stopDisabled = TRUE,
                                     !.connectDisabled = FALSE]
    /\ UNCHANGED menu
    /\ UNCHANGED mainVars

\* '-BUTTON-TEST-START-' and '-BUTTON-TEST-STOP-' (lines 91-95) both call
\* toggleTest, lines 195-222.  Start: the file is opened for writing (which
\* empties it), the counter reset, the start time taken.  Stop: saveToFile
\* (lines 363-376) writes the summary, the file is closed and the handle
\* cleared.  Then the buttons are set.
toggleTest ==
    /\ ~tester.startDisabled \/ ~tester.stopDisabled
    /\ tester.testing \/ tester.tests < MaxTests
    /\ tester' = IF ~tester.testing
                 THEN [tester EXCEPT !.testing = TRUE, !.drainTestsFile = "open",
                                     !.summaryLines = 0, !.imuTestCounter = 0,
                                     !.testStartTime = tester.now,
                                     !.startDisabled = TRUE, !.stopDisabled = FALSE,
                                     !.connectDisabled = TRUE, !.tests = @ + 1]
                 ELSE [tester EXCEPT !.testing = FALSE, !.summaryLines = @ + 1,
                                     !.drainTestsFile = "None",
                                     !.startDisabled = FALSE, !.stopDisabled = TRUE,
                                     !.connectDisabled = FALSE]
    /\ UNCHANGED menu
    /\ UNCHANGED mainVars

\* The kinds of message the IMU sends.
MessageTypes == {"AccelerationMessage", "AngleMessage", "QuaternionMessage"}

\* lines 318-335: imuCallback is called with a message of a connected IMU.
\* An acceleration or an angle message stores its value; a quaternion
\* message stores the quaternion and goes on.
imuCallback(msg_type) ==
    /\ tester.isConnected
    /\ tester.cb = "idle"
    /\ msg_type = "QuaternionMessage" => tester.imuTestCounter < MaxMsgs
    /\ tester' = CASE msg_type = "AccelerationMessage" -> [tester EXCEPT !.acceleration = "val"]
                   [] msg_type = "AngleMessage" -> [tester EXCEPT !.angle = "val"]
                   [] OTHER -> [tester EXCEPT !.quaternion = "val", !.cb = "time"]
    /\ UNCHANGED menu
    /\ UNCHANGED mainVars

\* line 336: self.testLastMessageTime = dt.now().timestamp().
CallbackTime ==
    /\ tester.cb = "time"
    /\ tester' = [tester EXCEPT !.testLastMessageTime = tester.now, !.cb = "load"]
    /\ UNCHANGED menu
    /\ UNCHANGED mainVars

\* line 337, self.imuTestCounter += 1: the counter is read ...
CallbackLoad ==
    /\ tester.cb = "load"
    /\ tester' = [tester EXCEPT !.cbLoad = tester.imuTestCounter, !.cb = "store"]
    /\ UNCHANGED menu
    /\ UNCHANGED mainVars

\* ... and stored back, one higher.
CallbackStore ==
    /\ tester.cb = "store"
    /\ tester' = [tester EXCEPT !.imuTestCounter = tester.cbLoad + 1,
                                !.cbLoad = 0, !.cb = "idle"]
    /\ UNCHANGED menu
    /\ UNCHANGED mainVars

\* The state after __init__, with a thread pool of the given number of worker
\* slots per stage and the display enabled or not (__init__ enables it; the
\* display button switches it off before anything else happens).
InitWith(slots, display) ==
    /\ running = TRUE
    /\ ctl = "idle"
    /\ enableRecording = FALSE
    /\ enableEditing = FALSE
    /\ enableDisplay = display
    /\ recordBtnDisabled = TRUE
    /\ editBtnDisabled = FALSE
    /\ isConnected = FALSE
    /\ imuConnected = FALSE
    /\ imuData = "absent"
    /\ currentRecordingPath = NoSession
    /\ currentDataFile = [id |-> NoSession, open |-> FALSE]
    /\ frameGrabCounter = 1
    /\ frameRaw = NoFrame
    /\ acceleration = Sample(NoFrame, "absent")
    /\ quaternion = Sample(NoFrame, "absent")
    /\ saveFrame = FALSE
    /\ resizeFrame = FALSE
    /\ acq = [i \in 1..slots |-> AcqIdle]
    /\ rsz = [i \in 1..slots |-> RszIdle]
    /\ sav = [i \in 1..slots |-> SavIdle]
    /\ seq = 0
    /\ sessions = 0
    /\ logLines = 0
    /\ imageFiles = 0
    /\ lastLogged = NoFrame
    /\ tester = TesterInit
    /\ menu = MenuInit

Init == InitWith(MaxTasks, TRUE)

(***************************************************************************)
(* Thread pool                                                             *)
(***************************************************************************)
\* threadExecutor.submit(f): the task starts in the lowest free worker slot.
HasFree(f) == \E i \in Tasks : f[i].pc = "off"
FreeSlot(f) == CHOOSE i \in Tasks : f[i].pc = "off" /\ \A j \in Tasks : j < i => f[j].pc # "off"
Submit(f, idle) == [f EXCEPT ![FreeSlot(f)] = [idle EXCEPT !.pc = "check"]]

(***************************************************************************)
(* Main thread: the events of run()                                        *)
(***************************************************************************)
\* An event is read only while the window is open and no handler is running.
Ready == running /\ ctl = "idle"

\* '::-MENU-SIGNAL-CONNECT-': setSignalSourceAndConnect.  The menu offers
\* Connect only while the source is disconnected and not in editing mode.
\* frameGrabber.connect() succeeds or fails (ok); the three threads are
\* submitted in both cases.
setSignalSourceAndConnect(ok) ==
    /\ Ready
    /\ ~isConnected
    /\ ~enableEditing
    /\ HasFree(acq) /\ HasFree(rsz) /\ HasFree(sav)
    /\ isConnected' = ok
    /\ acq' = Submit(acq, AcqIdle)
    /\ rsz' = Submit(rsz, RszIdle)
    /\ sav' = Submit(sav, SavIdle)
    /\ recordBtnDisabled' = ~ok
    /\ UNCHANGED <<running, ctl, enableRecording, enableEditing, enableDisplay, editBtnDisabled>>
    /\ UNCHANGED <<imuConnected, imuData>>
    /\ UNCHANGED <<sessVars, slotVars, histVars>>
    /\ UNCHANGED toolVars

\* '::-MENU-SIGNAL-DISCONNECT-': frameGrabber.disconnect(); updateMenus().
MenuSignalDisconnect ==
    /\ Ready
    /\ isConnected
    /\ isConnected' = FALSE
    /\ UNCHANGED <<imuConnected, imuData>>
    /\ UNCHANGED <<ctlVars, sessVars, slotVars, taskVars, histVars>>
    /\ UNCHANGED toolVars

\* The IMU connect window: imu.connect() succeeds or fails.
showImuConnectWindow(ok) ==
    /\ Ready
    /\ ~imuConnected
    /\ ~enableEditing
    /\ imuConnected' = ok
    /\ UNCHANGED <<isConnected, imuData>>
    /\ UNCHANGED <<ctlVars, sessVars, slotVars, taskVars, histVars>>
    /\ UNCHANGED toolVars

\* '::-MENU-IMU-DISCONNECT-': imu.disconnect(); updateMenus().
MenuImuDisconnect ==
    /\ Ready
    /\ imuConnected
    /\ imuConnected' = FALSE
    /\ UNCHANGED <<isConnected, imuData>>
    /\ UNCHANGED <<ctlVars, sessVars, slotVars, taskVars, histVars>>
    /\ UNCHANGED toolVars

\* The IMU driver delivers its first acceleration and quaternion values.
ImuDriverUpdate ==
    /\ imuConnected
    /\ imuData = "absent"
    /\ imuData' = "val"
    /\ UNCHANGED <<isConnected, imuConnected>>
    /\ UNCHANGED <<ctlVars, sessVars, slotVars, taskVars, histVars>>
    /\ UNCHANGED toolVars

\* '-BUTTON-DISPLAY-TOGGLE-' (disabled in editing mode).
toggleDisplay ==
    /\ Ready
    /\ ~enableEditing
    /\ enableDisplay' = ~enableDisplay
    /\ UNCHANGED <<running, ctl, enableRecording, enableEditing, recordBtnDisabled, editBtnDisabled>>
    /\ UNCHANGED <<devVars, sessVars, slotVars, taskVars, histVars>>
    /\ UNCHANGED toolVars

\* toggleEditing without lines 262-266: entering editing mode leaves the
\* frame source and the IMU connected.
toggleEditing_NoDisconnect ==
    /\ Ready
    /\ ~editBtnDisabled
    /\ enableEditing' = ~enableEditing
    /\ enableDisplay' = TRUE
    /\ recordBtnDisabled' = TRUE
    /\ UNCHANGED <<running, ctl, enableRecording, editBtnDisabled>>
    /\ UNCHANGED <<isConnected, imuConnected, imuData>>
    /\ UNCHANGED <<sessVars, slotVars, taskVars, histVars>>
    /\ UNCHANGED toolVars

\* '-BUTTON-EDIT-TOGGLE-': toggleEditing.
toggleEditing ==
    /\ Ready
    /\ ~editBtnDisabled
    /\ enableEditing' = ~enableEditing
    /\ enableDisplay' = TRUE
    /\ isConnected' = IF ~enableEditing THEN FALSE ELSE isConnected
    /\ imuConnected' = IF ~enableEditing THEN FALSE ELSE imuConnected
    /\ recordBtnDisabled' = TRUE
    /\ UNCHANGED <<running, ctl, enableRecording, editBtnDisabled>>
    /\ UNCHANGED <<imuData>>
    /\ UNCHANGED <<sessVars, slotVars, taskVars, histVars>>
    /\ UNCHANGED toolVars

\* '-BUTTON-RECORD-TOGGLE-': toggleRecording, first statement (line 477).
toggleRecording ==
    /\ Ready
    /\ ~recordBtnDisabled
    /\ enableRecording \/ sessions < MaxSessions
    /\ enableRecording' = ~enableRecording
    /\ ctl' = IF ~enableRecording THEN "createDir" ELSE "sleep"
    /\ UNCHANGED <<running, enableEditing, enableDisplay, recordBtnDisabled, editBtnDisabled>>
    /\ UNCHANGED <<devVars, sessVars, slotVars, taskVars, histVars>>
    /\ UNCHANGED toolVars

\* line 482: a fresh recording directory.
createRecordingDirectory ==
    /\ ctl = "createDir"
    /\ currentRecordingPath' = sessions + 1
    /\ sessions' = sessions + 1
    /\ imageFiles' = 0
    /\ ctl' = "open"
    /\ UNCHANGED <<running, enableRecording, enableEditing, enableDisplay, recordBtnDisabled, editBtnDisabled>>
    /\ UNCHANGED <<currentDataFile, frameGrabCounter, seq, logLines, lastLogged>>
    /\ UNCHANGED <<devVars, slotVars, taskVars>>
    /\ UNCHANGED toolVars

\* line 483: the data file of the new directory is opened.
openDataFile ==
    /\ ctl = "open"
    /\ currentDataFile' = [id |-> currentRecordingPath, open |-> TRUE]
    /\ logLines' = 0
    /\ lastLogged' = NoFrame
    /\ ctl' = "reset"
    /\ UNCHANGED <<running, enableRecording, enableEditing, enableDisplay, recordBtnDisabled, editBtnDisabled>>
    /\ UNCHANGED <<currentRecordingPath, frameGrabCounter>>
    /\ UNCHANGED <<seq, sessions, imageFiles>>
    /\ UNCHANGED <<devVars, slotVars, taskVars>>
    /\ UNCHANGED toolVars

\* lines 484-486 and 494-498: the counter is reset; the edit button is disabled.
resetFrameGrabCounter ==
    /\ ctl = "reset"
    /\ frameGrabCounter' = 1
    /\ editBtnDisabled' = TRUE
    /\ ctl' = "idle"
    /\ UNCHANGED <<running, enableRecording, enableEditing, enableDisplay, recordBtnDisabled>>
    /\ UNCHANGED <<currentRecordingPath, currentDataFile>>
    /\ UNCHANGED <<devVars, slotVars, taskVars, histVars>>
    /\ UNCHANGED toolVars

\* closeDataFile without line 491: the stop leaves the handle open.
closeDataFile_NoClose ==
    /\ ctl = "sleep"
    /\ editBtnDisabled' = FALSE
    /\ ctl' = "idle"
    /\ UNCHANGED <<running, enableRecording, enableEditing, enableDisplay, recordBtnDisabled>>
    /\ UNCHANGED <<currentRecordingPath, currentDataFile, frameGrabCounter>>
    /\ UNCHANGED <<devVars, slotVars, taskVars, histVars>>
    /\ UNCHANGED toolVars

\* lines 489-498: after time.sleep(0.2) the data file is closed.
closeDataFile ==
    /\ ctl = "sleep"
    /\ currentDataFile' = [currentDataFile EXCEPT !.open = FALSE]
    /\ editBtnDisabled' = FALSE
    /\ ctl' = "idle"
    /\ UNCHANGED <<running, enableRecording, enableEditing, enableDisplay, recordBtnDisabled>>
    /\ UNCHANGED <<currentRecordingPath, frameGrabCounter>>
    /\ UNCHANGED <<devVars, slotVars, taskVars, histVars>>
    /\ UNCHANGED toolVars

\* sg.WIN_CLOSED: close() disconnects the IMU and the frame grabber; run() returns.
close ==
    /\ Ready
    /\ running' = FALSE
    /\ isConnected' = FALSE
    /\ imuConnected' = FALSE
    /\ UNCHANGED <<ctl, enableRecording, enableEditing, enableDisplay, recordBtnDisabled, editBtnDisabled>>
    /\ UNCHANGED <<imuData>>
    /\ UNCHANGED <<sessVars, slotVars, taskVars, histVars>>
    /\ UNCHANGED toolVars

(***************************************************************************)
(* getFramesThread                                                         *)
(***************************************************************************)
\* AcqCheck without the test of lines 316-317: the loop never ends.
AcqCheck_NoBreak(i) ==
    /\ acq[i].pc = "check"
    /\ acq' = [acq EXCEPT ![i].pc = "grab"]
    /\ UNCHANGED <<rsz, sav>>
    /\ UNCHANGED <<ctlVars, devVars, sessVars, slotVars, histVars>>
    /\ UNCHANGED toolVars

\* AcqCheck of a thread that returns without the rate signal of line 340.
AcqCheck_NoSignal(i) ==
    /\ acq[i].pc = "check"
    /\ acq' = [acq EXCEPT ![i] = IF isConnected THEN [@ EXCEPT !.pc = "grab"] ELSE AcqIdle]
    /\ UNCHANGED <<rsz, sav>>
    /\ UNCHANGED <<ctlVars, devVars, sessVars, slotVars, histVars>>
    /\ UNCHANGED toolVars

\* lines 314-317: the loop ends when the frame grabber is not connected;
\* lines 338-340: the thread then sends rate 0 and returns.
AcqCheck(i) ==
    /\ acq[i].pc = "check"
    /\ acq' = [acq EXCEPT ![i] = IF isConnected THEN [@ EXCEPT !.pc = "grab"]
                                                 ELSE [AcqIdle EXCEPT !.bye = "rate 0"]]
    /\ UNCHANGED <<rsz, sav>>
    /\ UNCHANGED <<ctlVars, devVars, sessVars, slotVars, histVars>>
    /\ UNCHANGED toolVars

\* What frameGrabber.getFrame() returns: a new frame, or (False, None).  A
\* new frame needs a connected source.
GetFrameResults == {<<FALSE, NoFrame>>} \cup
    (IF isConnected /\ seq < MaxAcq THEN {<<TRUE, seq + 1>>} ELSE {})

\* line 320: res, self.frameRaw = self.frameGrabber.getFrame(); line 322: if res.
AcqGrab(i) ==
    /\ acq[i].pc = "grab"
    /\ \E r \in GetFrameResults :
        /\ frameRaw' = r[2]
        /\ seq' = IF r[1] THEN seq + 1 ELSE seq
        /\ acq' = [acq EXCEPT ![i] = IF r[1] THEN [AcqTop EXCEPT !.pc = "acc", !.n = r[2]]
                                             ELSE AcqTop]
    /\ UNCHANGED <<rsz, sav>>
    /\ UNCHANGED <<acceleration, quaternion, saveFrame, resizeFrame>>
    /\ UNCHANGED <<sessions, logLines, imageFiles, lastLogged>>
    /\ UNCHANGED <<ctlVars, devVars, sessVars>>
    /\ UNCHANGED toolVars

\* Line 324 without its `if self.imu.isConnected else [0, 0, 0]`: the value
\* of the IMU object is stored whether or not the IMU is connected.
AcqAcceleration_NoDefault(i) ==
    /\ acq[i].pc = "acc"
    /\ acceleration' = Sample(acq[i].n, imuData)
    /\ acq' = [acq EXCEPT ![i].pc = "quat"]
    /\ UNCHANGED <<rsz, sav>>
    /\ UNCHANGED <<frameRaw, quaternion, saveFrame, resizeFrame>>
    /\ UNCHANGED <<ctlVars, devVars, sessVars, histVars>>
    /\ UNCHANGED toolVars

\* line 324: self.imu.acceleration if self.imu.isConnected else [0, 0, 0].
AcqAcceleration(i) ==
    /\ acq[i].pc = "acc"
    /\ acceleration' = Sample(acq[i].n, IF imuConnected THEN imuData ELSE "zero")
    /\ acq' = [acq EXCEPT ![i].pc = "quat"]
    /\ UNCHANGED <<rsz, sav>>
    /\ UNCHANGED <<frameRaw, quaternion, saveFrame, resizeFrame>>
    /\ UNCHANGED <<ctlVars, devVars, sessVars, histVars>>
    /\ UNCHANGED toolVars

\* lines 318 and 327: time.time() read twice; the clock may not have advanced.
ElapsedTimes == {0, 1}

\* line 328: int(1 / signalDt) if signalDt != 0 else 100.
SignalRate(dt) == IF dt # 0 THEN 1 \div dt ELSE 100

\* line 325, and lines 327-329, which touch no shared field: the rate is
\* computed and sent to the window (the only rate signal of an iteration; an
\* iteration whose getFrame() failed sends none).
AcqQuaternion(i) ==
    /\ acq[i].pc = "quat"
    /\ quaternion' = Sample(acq[i].n, IF imuConnected THEN imuData ELSE "zero")
    /\ \E dt \in ElapsedTimes : SignalRate(dt) >= 0
    /\ acq' = [acq EXCEPT ![i].pc = "rec", ![i].sig = @ + 1]
    /\ UNCHANGED <<rsz, sav>>
    /\ UNCHANGED <<frameRaw, acceleration, saveFrame, resizeFrame>>
    /\ UNCHANGED <<ctlVars, devVars, sessVars, histVars>>
    /\ UNCHANGED toolVars

\* Line 332 without the test of line 331: every acquired frame raises the
\* save request.
AcqTestRecording_Always(i) ==
    /\ acq[i].pc = "rec"
    /\ acq' = [acq EXCEPT ![i].pc = "raise"]
    /\ UNCHANGED <<rsz, sav>>
    /\ UNCHANGED <<ctlVars, devVars, sessVars, slotVars, histVars>>
    /\ UNCHANGED toolVars

\* line 331: if self.enableRecording.
AcqTestRecording(i) ==
    /\ acq[i].pc = "rec"
    /\ acq' = [acq EXCEPT ![i].pc = IF enableRecording THEN "raise" ELSE "disp"]
    /\ UNCHANGED <<rsz, sav>>
    /\ UNCHANGED <<ctlVars, devVars, sessVars, slotVars, histVars>>
    /\ UNCHANGED toolVars

\* Line 332 behind a wait for the persistence stage: the request is raised
\* only once the previous one has been consumed.
AcqRaiseSave_Waits(i) ==
    /\ acq[i].pc = "raise"
    /\ ~saveFrame
    /\ saveFrame' = TRUE
    /\ acq' = [acq EXCEPT ![i].pc = "disp"]
    /\ UNCHANGED <<rsz, sav>>
    /\ UNCHANGED <<frameRaw, acceleration, quaternion, resizeFrame>>
    /\ UNCHANGED <<ctlVars, devVars, sessVars, histVars>>
    /\ UNCHANGED toolVars

\* line 332: self.saveFrame = True.
AcqRaiseSave(i) ==
    /\ acq[i].pc = "raise"
    /\ saveFrame' = TRUE
    /\ acq' = [acq EXCEPT ![i].pc = "disp"]
    /\ UNCHANGED <<rsz, sav>>
    /\ UNCHANGED <<frameRaw, acceleration, quaternion, resizeFrame>>
    /\ UNCHANGED <<ctlVars, devVars, sessVars, histVars>>
    /\ UNCHANGED toolVars

\* line 335: if self.enableDisplay.
AcqTestDisplay(i) ==
    /\ acq[i].pc = "disp"
    /\ acq' = [acq EXCEPT ![i] = IF enableDisplay THEN [@ EXCEPT !.pc = "show"] ELSE AcqTop]
    /\ UNCHANGED <<rsz, sav>>
    /\ UNCHANGED <<ctlVars, devVars, sessVars, slotVars, histVars>>
    /\ UNCHANGED toolVars

\* line 336: self.resizeFrame = True.
AcqRaiseResize(i) ==
    /\ acq[i].pc = "show"
    /\ resizeFrame' = TRUE
    /\ acq' = [acq EXCEPT ![i] = AcqTop]
    /\ UNCHANGED <<rsz, sav>>
    /\ UNCHANGED <<frameRaw, acceleration, quaternion, saveFrame>>
    /\ UNCHANGED <<ctlVars, devVars, sessVars, histVars>>
    /\ UNCHANGED toolVars

(***************************************************************************)
(* resizeFramesThread                                                      *)
(***************************************************************************)
\* line 357: while self.frameGrabber.isConnected; lines 374-376: after the
\* loop the thread sends rate 0 and returns.
RszCheck(i) ==
    /\ rsz[i].pc = "check"
    /\ rsz' = [rsz EXCEPT ![i] = IF isConnected THEN [@ EXCEPT !.pc = "test"]
                                                 ELSE [RszIdle EXCEPT !.bye = "rate 0"]]
    /\ UNCHANGED <<acq, sav>>
    /\ UNCHANGED <<ctlVars, devVars, sessVars, slotVars, histVars>>
    /\ UNCHANGED toolVars

\* line 358: if self.resizeFrame; otherwise lines 369-372: rate 0 and the sleep.
RszTest(i) ==
    /\ rsz[i].pc = "test"
    /\ rsz' = [rsz EXCEPT ![i].pc = IF resizeFrame THEN "clear" ELSE "check"]
    /\ UNCHANGED <<acq, sav>>
    /\ UNCHANGED <<ctlVars, devVars, sessVars, slotVars, histVars>>
    /\ UNCHANGED toolVars

\* line 359.
RszClear(i) ==
    /\ rsz[i].pc = "clear"
    /\ resizeFrame' = FALSE
    /\ rsz' = [rsz EXCEPT ![i].pc = "resize"]
    /\ UNCHANGED <<acq, sav>>
    /\ UNCHANGED <<frameRaw, acceleration, quaternion, saveFrame>>
    /\ UNCHANGED <<ctlVars, devVars, sessVars, histVars>>
    /\ UNCHANGED toolVars

\* ut.resizeFrame(frame, ...) raises when there is no frame to resize (None).
ResizeFrameOk(frame) == frame # NoFrame

\* line 366: int(1 / resizeFpsDt) raises ZeroDivisionError on a zero difference.
ResizeRateOk(dt) == dt # 0

\* lines 360-372: the preview is built from self.frameRaw and emitted, the
\* rate is computed, the thread sleeps.  Nothing in the thread catches an
\* exception: if one is raised the thread ends.
RszResize(i) ==
    /\ rsz[i].pc = "resize"
    /\ \E dt \in ElapsedTimes :
        rsz' = [rsz EXCEPT ![i] = IF ResizeFrameOk(frameRaw) /\ ResizeRateOk(dt)
                                     THEN RszTop ELSE RszIdle]
    /\ UNCHANGED <<acq, sav>>
    /\ UNCHANGED <<ctlVars, devVars, sessVars, slotVars, histVars>>
    /\ UNCHANGED toolVars

(***************************************************************************)
(* saveFramesThread and record                                             *)
(***************************************************************************)
\* line 391: while self.frameGrabber.isConnected; after the loop (lines
\* 402-403) the thread prints and returns: it sends no rate signal.
SavCheck(i) ==
    /\ sav[i].pc = "check"
    /\ sav' = [sav EXCEPT ![i] = IF isConnected THEN [@ EXCEPT !.pc = "test"] ELSE SavIdle]
    /\ UNCHANGED <<acq, rsz>>
    /\ UNCHANGED <<ctlVars, devVars, sessVars, slotVars, histVars>>
    /\ UNCHANGED toolVars

\* line 392: if self.saveFrame; otherwise line 400: the sleep.
SavTest(i) ==
    /\ sav[i].pc = "test"
    /\ sav' = [sav EXCEPT ![i].pc = IF saveFrame THEN "clear" ELSE "check"]
    /\ UNCHANGED <<acq, rsz>>
    /\ UNCHANGED <<ctlVars, devVars, sessVars, slotVars, histVars>>
    /\ UNCHANGED toolVars

\* line 393.
SavClear(i) ==
    /\ sav[i].pc = "clear"
    /\ saveFrame' = FALSE
    /\ sav' = [sav EXCEPT ![i].pc = "name"]
    /\ UNCHANGED <<acq, rsz>>
    /\ UNCHANGED <<frameRaw, acceleration, quaternion, resizeFrame>>
    /\ UNCHANGED <<ctlVars, devVars, sessVars, histVars>>
    /\ UNCHANGED toolVars

\* line 394: the frame name starts with the current frameGrabCounter (the
\* millisecond suffix is not modelled).
SavFrameName(i) ==
    /\ sav[i].pc = "name"
    /\ sav' = [sav EXCEPT ![i].pc = "call", ![i].name = frameGrabCounter]
    /\ UNCHANGED <<acq, rsz>>
    /\ UNCHANGED <<ctlVars, devVars, sessVars, slotVars, histVars>>
    /\ UNCHANGED toolVars

\* line 395: the arguments of record() are read from the shared fields, one
\* attribute load after the other: self.frameRaw ...
SavLoadFrame(i) ==
    /\ sav[i].pc = "call"
    /\ sav' = [sav EXCEPT ![i].pc = "arg2", ![i].frame = frameRaw]
    /\ UNCHANGED <<acq, rsz>>
    /\ UNCHANGED <<ctlVars, devVars, sessVars, slotVars, histVars>>
    /\ UNCHANGED toolVars

\* ... self.acceleration ...
SavLoadAcceleration(i) ==
    /\ sav[i].pc = "arg2"
    /\ sav' = [sav EXCEPT ![i].pc = "arg3", ![i].acc = acceleration]
    /\ UNCHANGED <<acq, rsz>>
    /\ UNCHANGED <<ctlVars, devVars, sessVars, slotVars, histVars>>
    /\ UNCHANGED toolVars

\* ... self.quaternion, and record() is entered.
SavLoadQuaternion(i) ==
    /\ sav[i].pc = "arg3"
    /\ sav' = [sav EXCEPT ![i].pc = "log", ![i].quat = quaternion]
    /\ UNCHANGED <<acq, rsz>>
    /\ UNCHANGED <<ctlVars, devVars, sessVars, slotVars, histVars>>
    /\ UNCHANGED toolVars

\* lines 418-422: self.currentDataFile.write(...) returns normally only if
\* there is a handle (not None), acceleration and quaternion can be indexed,
\* the handle is open and the operating system accepts the write (io).
LogWriteOk(file, acc, quat, io) ==
    /\ file.id # NoSession
    /\ acc.val # "absent"
    /\ quat.val # "absent"
    /\ file.open
    /\ io

\* ut.saveSingleFrame(frame, path): fails on a missing frame or an I/O error.
SaveSingleFrameOk(frame, io) == frame # NoFrame /\ io

\* RecordLog without the try/except of lines 417 and 424: a failed write
\* ends the thread.
RecordLog_Uncaught(i) ==
    /\ sav[i].pc = "log"
    /\ \E io \in BOOLEAN :
        IF LogWriteOk(currentDataFile, sav[i].acc, sav[i].quat, io)
        THEN /\ sav' = [sav EXCEPT ![i].pc = "img", ![i].log = TRUE]
             /\ logLines' = logLines + 1
             /\ lastLogged' = IF sav[i].frame > lastLogged THEN sav[i].frame ELSE lastLogged
        ELSE /\ sav' = [sav EXCEPT ![i] = SavIdle]
             /\ UNCHANGED <<logLines, lastLogged>>
    /\ UNCHANGED <<acq, rsz>>
    /\ UNCHANGED <<seq, sessions, imageFiles>>
    /\ UNCHANGED <<ctlVars, devVars, sessVars, slotVars>>
    /\ UNCHANGED toolVars

\* lines 417-422 and 424-425: the log line; an exception skips the image.
RecordLog(i) ==
    /\ sav[i].pc = "log"
    /\ \E io \in BOOLEAN :
        IF LogWriteOk(currentDataFile, sav[i].acc, sav[i].quat, io)
        THEN /\ sav' = [sav EXCEPT ![i].pc = "img", ![i].log = TRUE]
             /\ logLines' = logLines + 1
             /\ lastLogged' = IF sav[i].frame > lastLogged THEN sav[i].frame ELSE lastLogged
        ELSE /\ sav' = [sav EXCEPT ![i].pc = "inc"]
             /\ UNCHANGED <<logLines, lastLogged>>
    /\ UNCHANGED <<acq, rsz>>
    /\ UNCHANGED <<seq, sessions, imageFiles>>
    /\ UNCHANGED <<ctlVars, devVars, sessVars, slotVars>>
    /\ UNCHANGED toolVars

\* lines 423-425: the image; an exception is printed and swallowed.
RecordImage(i) ==
    /\ sav[i].pc = "img"
    /\ \E io \in BOOLEAN :
        /\ sav' = [sav EXCEPT ![i].pc = "inc", ![i].img = SaveSingleFrameOk(sav[i].frame, io)]
        /\ imageFiles' = IF SaveSingleFrameOk(sav[i].frame, io) THEN imageFiles + 1 ELSE imageFiles
    /\ UNCHANGED <<acq, rsz>>
    /\ UNCHANGED <<seq, sessions, logLines, lastLogged>>
    /\ UNCHANGED <<ctlVars, devVars, sessVars, slotVars>>
    /\ UNCHANGED toolVars

\* line 396, self.frameGrabCounter += 1: the counter is read ...
SavCountLoad(i) ==
    /\ sav[i].pc = "inc"
    /\ sav' = [sav EXCEPT ![i].pc = "store", ![i].name = frameGrabCounter]
    /\ UNCHANGED <<acq, rsz>>
    /\ UNCHANGED <<ctlVars, devVars, sessVars, slotVars, histVars>>
    /\ UNCHANGED toolVars

\* The counter after a record() call, from the value loaded.
NextCounter(c) == c + 1

\* ... and stored back, one higher, whatever record() did (line 397 sends it
\* to the window).
SavCountStore(i) ==
    /\ sav[i].pc = "store"
    /\ frameGrabCounter' = NextCounter(sav[i].name)
    /\ sav' = [sav EXCEPT ![i] = [SavIdle EXCEPT !.pc = "check"]]
    /\ UNCHANGED <<acq, rsz>>
    /\ UNCHANGED <<currentRecordingPath, currentDataFile>>
    /\ UNCHANGED <<ctlVars, devVars, slotVars, histVars>>
    /\ UNCHANGED toolVars

(***************************************************************************)
(* Specification                                                           *)
(***************************************************************************)
\* The menu, button and window events that run() dispatches, and the steps
\* of toggleRecording.
Controller ==
    \/ \E ok \in BOOLEAN : setSignalSourceAndConnect(ok)
    \/ MenuSignalDisconnect
    \/ toggleDisplay
    \/ toggleEditing
    \/ toggleRecording
    \/ createRecordingDirectory
    \/ openDataFile
    \/ resetFrameGrabCounter
    \/ closeDataFile
    \/ close

\* The IMU: its connect window, its menu and its driver.
Sensor ==
    \/ \E ok \in BOOLEAN : showImuConnectWindow(ok)
    \/ MenuImuDisconnect
    \/ ImuDriverUpdate

getFramesThread(i) ==
    \/ AcqCheck(i)
    \/ AcqGrab(i)
    \/ AcqAcceleration(i)
    \/ AcqQuaternion(i)
    \/ AcqTestRecording(i)
    \/ AcqRaiseSave(i)
    \/ AcqTestDisplay(i)
    \/ AcqRaiseResize(i)

resizeFramesThread(i) ==
    \/ RszCheck(i)
    \/ RszTest(i)
    \/ RszClear(i)
    \/ RszResize(i)

saveFramesThread(i) ==
    \/ SavCheck(i)
    \/ SavTest(i)
    \/ SavClear(i)
    \/ SavFrameName(i)
    \/ SavLoadFrame(i)
    \/ SavLoadAcceleration(i)
    \/ SavLoadQuaternion(i)
    \/ RecordLog(i)
    \/ RecordImage(i)
    \/ SavCountLoad(i)
    \/ SavCountStore(i)

\* The controller and the three stage threads.  The IMU stays disconnected
\* here (every unit carries zeros); the steps of Sensor are not part of Next.
Next ==
    \/ Controller
    \/ \E i \in Tasks : getFramesThread(i)
    \/ \E i \in Tasks : resizeFramesThread(i)
    \/ \E i \in Tasks : saveFramesThread(i)

Spec == Init /\ [][Next]_vars

\* The steps a handler of the main thread takes once it has been entered.
HandlerSteps ==
    \/ createRecordingDirectory
    \/ openDataFile
    \/ resetFrameGrabCounter
    \/ closeDataFile

\* Scheduling: the operating system keeps running every stage thread and the
\* main thread finishes the handler it is in.  Nothing makes the user act.
Fairness ==
    /\ WF_vars(HandlerSteps)
    /\ \A i \in 1..MaxTasks : /\ WF_vars(getFramesThread(i))
                               /\ WF_vars(resizeFramesThread(i))
                               /\ WF_vars(saveFramesThread(i))

\* Recording without the preview: the user has switched the display off,
\* then connects, disconnects and records.  No display request is raised, so
\* the preparation thread only polls.
InitRecord == InitWith(MaxTasks, FALSE)

NextRecord ==
    \/ \E ok \in BOOLEAN : setSignalSourceAndConnect(ok)
    \/ MenuSignalDisconnect
    \/ toggleRecording
    \/ HandlerSteps
    \/ \E i \in Tasks :
        \/ AcqCheck(i)
        \/ AcqGrab(i)
        \/ AcqAcceleration(i)
        \/ AcqQuaternion(i)
        \/ AcqTestRecording(i)
        \/ AcqRaiseSave(i)
        \/ AcqTestDisplay(i)
    \/ \E j \in Tasks : RszCheck(j) \/ RszTest(j)
    \/ \E k \in Tasks : saveFramesThread(k)

FairRecord == InitRecord /\ [][NextRecord]_vars /\ Fairness

\* Connecting and disconnecting with a larger pool: the user connects (the
\* source answers), disconnects and connects again, and never records, so
\* the stage threads take the steps they take without a save request.
InitPool == InitWith(PoolTasks, TRUE)

NextPool ==
    \/ setSignalSourceAndConnect(TRUE)
    \/ MenuSignalDisconnect
    \/ \E i \in Tasks :
        \/ AcqCheck(i)
        \/ AcqGrab(i)
        \/ AcqAcceleration(i)
        \/ AcqQuaternion(i)
        \/ AcqTestRecording(i)
        \/ AcqTestDisplay(i)
        \/ AcqRaiseResize(i)
    \/ \E j \in Tasks : resizeFramesThread(j)
    \/ \E k \in Tasks : SavCheck(k) \/ SavTest(k)

SpecPool == InitPool /\ [][NextPool]_vars

\* Recording with the IMU: the display is off, the user connects the source
\* once and the IMU at any moment, and records; the IMU driver delivers its
\* first values at some moment after the IMU has connected.
NextSensor ==
    \/ setSignalSourceAndConnect(TRUE)
    \/ Sensor
    \/ toggleRecording
    \/ HandlerSteps
    \/ \E i \in Tasks :
        \/ AcqCheck(i)
        \/ AcqGrab(i)
        \/ AcqAcceleration(i)
        \/ AcqQuaternion(i)
        \/ AcqTestRecording(i)
        \/ AcqRaiseSave(i)
        \/ AcqTestDisplay(i)
    \/ \E j \in Tasks : RszCheck(j) \/ RszTest(j)
    \/ \E k \in Tasks : saveFramesThread(k)

SpecSensor == InitRecord /\ [][NextSensor]_vars

\* Editing, recording and both devices: every event of the controller and
\* of the IMU, and the acquisition thread; the preparation and persistence
\* threads only poll (a task that finds a request raised goes no further).
NextEditing ==
    \/ Controller
    \/ Sensor
    \/ \E i \in Tasks : getFramesThread(i)
    \/ \E j \in Tasks : RszCheck(j) \/ RszTest(j)
    \/ \E k \in Tasks : SavCheck(k) \/ SavTest(k)

SpecEditing == Init /\ [][NextEditing]_vars

\* The tools: the battery tester under every sequence of its events and of
\* the IMU's messages, and a Menu object under every sequence of getMenu
\* calls.  The main program takes no step.
NextTools ==
    \/ TesterTick
    \/ \E ok \in BOOLEAN : toggleImuConnect(ok)
    \/ toggleTest
    \/ \E msg_type \in MessageTypes : imuCallback(msg_type)
    \/ CallbackTime
    \/ CallbackLoad
    \/ CallbackStore
    \/ \E frameGrabberConnected, imuConnectedArg \in BOOLEAN :
          getMenu(frameGrabberConnected, imuConnectedArg)

SpecTools == Init /\ [][NextTools]_vars

(***************************************************************************)
(* Properties                                                              *)
(***************************************************************************)
\* A save request is owed: raised by acquisition and the persistence stage
\* has not yet read the frame it is about.
SaveOwed == saveFrame \/ \E i \in Tasks : sav[i].pc \in {"clear", "name", "call"}

\* The persistence stage has a write in flight: it has cleared the save
\* request and its record() call has not returned.
WriteInFlight == \E i \in Tasks : sav[i].pc \in {"name", "call", "arg2", "arg3", "log", "img"}

\* The persistence stage is inside an iteration that honours a request.
Persisting == \E i \in Tasks : sav[i].pc \in {"clear", "name", "call", "arg2", "arg3", "log", "img", "inc", "store"}

\* Steps, recognised by the position they leave.
RaisesSave(i) == acq[i].pc = "raise" /\ acq'[i].pc # "raise"
AttemptsLog(i) == sav[i].pc = "log" /\ sav'[i].pc # "log"
WritesLog(i) == sav[i].pc = "log" /\ sav'[i].pc = "img"
StoresCounter(i) == sav[i].pc = "store" /\ sav'[i].pc # "store"

\* The session's handle has been closed by stopRecording.
HandleClosed == currentDataFile.id # NoSession /\ ~currentDataFile.open

\* toggleRecording is between enabling recording and resetting the counter.
Starting == ctl \in {"createDir", "open", "reset"}

\* C1: while recording is active and the source is connected, the frame in
\* the shared slot is not replaced by the frame of a later acquisition as
\* long as a save request for it is owed (no acquired unit is overwritten,
\* and no request collapsed into a later one, before the persistence stage
\* has taken the unit).
C1_EveryPublishedUnitPersisted ==
    [][(enableRecording /\ isConnected /\ ctl = "idle" /\ SaveOwed /\ frameRaw # NoFrame)
          => frameRaw' \in {frameRaw, NoFrame}]_vars

\* C2: within one recording session every frame that gets a log line is
\* newer than every frame logged before it: no acquired unit is written
\* twice and none out of acquisition order.
C2_NoDuplicateNoReorder ==
    [][\A i \in Tasks : (WritesLog(i) /\ sav[i].frame # NoFrame) => sav[i].frame > lastLogged]_vars

\* C3: whenever record() has written a log line for a frame, the
\* acceleration and the quaternion it was passed come from the acquisition
\* that produced that frame.
C3_ConsistentSnapshot ==
    \A i \in Tasks : (sav[i].pc = "img" /\ sav[i].frame # NoFrame) =>
        /\ sav[i].acc.src = sav[i].frame
        /\ sav[i].quat.src = sav[i].frame

\* C4: an iteration of the persistence stage whose log write or image write
\* failed leaves the frame counter unchanged (stated for a session whose
\* handle is open and whose creation is complete).
C4_CounterAdvancesOnlyOnSuccess ==
    [][\A i \in Tasks :
          (StoresCounter(i) /\ ~(sav[i].log /\ sav[i].img) /\ currentDataFile.open /\ ctl = "idle")
              => frameGrabCounter' = frameGrabCounter]_vars

\* C5: whenever no write is in flight (and toggleRecording is not in the
\* middle of creating the session), the frame counter is one more than the
\* number of lines written to the session's data log.
C5_CounterTracksLogLines ==
    (~Persisting /\ ~Starting) => frameGrabCounter = logLines + 1

\* C6: once recording has been stopped and the persistence stage is idle,
\* the session holds as many log lines as image files.
C6_LogLinesMatchImages ==
    (~enableRecording /\ ctl = "idle" /\ ~Persisting) => logLines = imageFiles

\* C7: the controller never closes the session's log handle while the
\* persistence stage has a write in flight.
C7_NoCloseDuringWrite ==
    [][(currentDataFile.open /\ ~currentDataFile'.open) => ~WriteInFlight]_vars

\* C8: after stopRecording has closed the log handle, the persistence stage
\* attempts no write on it and the frame counter no longer changes.
C8_NoWriteAfterClose ==
    [][(HandleClosed /\ HandleClosed')
          => /\ \A i \in Tasks : ~AttemptsLog(i)
             /\ frameGrabCounter' = frameGrabCounter]_vars

\* C9: no save request is raised while toggleRecording is still creating the
\* session, and the first frame written to a session's log carries counter 1.
C9_SessionCreatedBeforeRequests ==
    [][\A i \in Tasks :
          /\ RaisesSave(i) => ~Starting
          /\ (WritesLog(i) /\ logLines = 0) => sav[i].name = 1]_vars

\* C10: in every state recording active implies the frame source is
\* connected, and the state connected-and-recording is left only by
\* stopping the recording, never by losing the connection.
C10_RecordingImpliesConnected ==
    [][/\ enableRecording' => isConnected'
       /\ (enableRecording /\ isConnected) => isConnected']_vars

\* C11: while the frame source is disconnected a record toggle has no
\* effect: no step turns recording on and no recording directory is created.
C11_NoRecordingWhileDisconnected ==
    [][~isConnected => /\ (enableRecording' => enableRecording)
                       /\ sessions' = sessions]_vars

\* C13: once the window is closed (close() has run) no recording is active
\* and no session's log handle is open.
C13_ShutdownStopsRecording ==
    ~running => (~enableRecording /\ ~currentDataFile.open)

\* C14: once a recording has been stopped and its handle closed, a further
\* stop request (the record button's event: the program has no other) is a
\* no-op: the recording flag is unchanged and no session creation begins.
C14_StopWhenIdleIsNoOp ==
    [][(HandleClosed /\ ~enableRecording /\ ctl = "idle" /\ ctl' # "idle")
          => /\ enableRecording' = enableRecording
             /\ ctl' \notin {"createDir", "open", "reset"}]_vars

\* C16: a connect whose frameGrabber.connect() failed (the source is still
\* disconnected after it) spawns no stage task.
C16_SpawnOnlyOnSuccess ==
    [][~isConnected' =>
          \A i \in Tasks : /\ acq[i].pc = "off" => acq'[i].pc = "off"
                           /\ rsz[i].pc = "off" => rsz'[i].pc = "off"
                           /\ sav[i].pc = "off" => sav'[i].pc = "off"]_vars

\* C12: when the source is disconnected while a recording is active (and the
\* window stays open: shutdown is another matter), the session's log handle
\* is eventually closed.
C12_DisconnectClosesHandle ==
    (running /\ enableRecording /\ ~isConnected /\ currentDataFile.open)
        ~> (~currentDataFile.open \/ ~running)

\* The tasks of a stage that have been started and have not returned.
Running(f) == {i \in Tasks : f[i].pc # "off"}

\* C15: at any time at most one acquisition task, one preparation task and
\* one persistence task is running (so none spawned for an earlier connection
\* is left to run during a later one).
C15_OneTaskPerStage ==
    /\ Cardinality(Running(acq)) <= 1
    /\ Cardinality(Running(rsz)) <= 1
    /\ Cardinality(Running(sav)) <= 1

\* A step in which a running task of stage f ends.
Ends(f, i) == f[i].pc # "off" /\ f'[i].pc = "off"

\* C18: no stage task ends while the frame source is connected.
C18_TerminationOnlyOnDisconnect ==
    [][\A i \in Tasks : (Ends(acq, i) \/ Ends(rsz, i) \/ Ends(sav, i)) => ~isConnected]_vars

\* Every stage task has returned.
AllOff == \A i \in Tasks : acq[i].pc = "off" /\ rsz[i].pc = "off" /\ sav[i].pc = "off"

\* C17: once the source is disconnected each stage task ends, unless the
\* source is connected again first (at every moment there is a later one at
\* which the source is connected or the task has ended); while the source is disconnected a task
\* at the top of its loop starts no further iteration; and a task ends only
\* by a step of its own (at the top of its loop, or in the preparation
\* stage's resize), never by a step of the controller.
C17_TasksEndAfterDisconnect ==
    /\ \A i \in 1..MaxTasks :
          /\ []<>(isConnected \/ acq[i].pc = "off")
          /\ []<>(isConnected \/ rsz[i].pc = "off")
          /\ []<>(isConnected \/ sav[i].pc = "off")
    /\ [][\A i \in Tasks :
            /\ (~isConnected /\ acq[i].pc = "check") => acq'[i].pc \in {"check", "off"}
            /\ (~isConnected /\ rsz[i].pc = "check") => rsz'[i].pc \in {"check", "off"}
            /\ (~isConnected /\ sav[i].pc = "check") => sav'[i].pc \in {"check", "off"}
            /\ Ends(acq, i) => acq[i].pc = "check"
            /\ Ends(rsz, i) => rsz[i].pc \in {"check", "resize"}
            /\ Ends(sav, i) => sav[i].pc = "check"]_vars

\* Frames were acquired, the source is disconnected and every task has ended.
C17_Witness == seq > 0 /\ ~isConnected /\ running /\ AllOff

\* The record() call of persistence task i has returned after a failed write.
FailedRecord(i) == sav[i].pc = "inc" /\ ~(sav[i].log /\ sav[i].img)

\* C19: a failed record() call ends neither the persistence task nor the
\* recording: the step in which the write fails leaves the recording flag
\* and the handle as they are, the task does not end while the source is
\* connected, and after the failure the task is back at the test of the
\* save request (where a raised request is honoured) unless the source is
\* disconnected.
C19_WriteFailureContained ==
    /\ \A i \in 1..MaxTasks : FailedRecord(i) ~> (sav[i].pc = "test" \/ ~isConnected)
    /\ [][\A i \in Tasks :
            /\ (~FailedRecord(i) /\ FailedRecord(i)')
                  => (enableRecording' = enableRecording /\ currentDataFile' = currentDataFile)
            /\ Ends(sav, i) => ~isConnected
            /\ (sav[i].pc = "test" /\ saveFrame /\ sav'[i] # sav[i]) => sav'[i].pc = "clear"]_vars

\* After a failed write in an open session the task tests the next request.
C19_Witness ==
    \E i \in Tasks : /\ sav[i].pc = "test" /\ saveFrame /\ enableRecording /\ isConnected
                     /\ currentDataFile.open /\ frameGrabCounter > logLines + 1

\* C20: an acquisition iteration whose getFrame() failed leaves the frame,
\* the acceleration, the quaternion, the save request and the display
\* request as they were.
C20_FailedGrabLeavesUnit ==
    [][\A i \in Tasks : (acq[i].pc = "grab" /\ acq'[i].pc = "check")
          => UNCHANGED <<frameRaw, acceleration, quaternion, saveFrame, resizeFrame>>]_vars

\* Acquisition task i has published the unit of its iteration (lines 320,
\* 324 and 325 have run) and has not started the next iteration.
Published(i) == acq[i].pc \in {"rec", "raise", "disp", "show"}

\* C21: last write wins: once an acquisition task has published a unit, and
\* until it starts its next iteration, the slot holds that unit exactly: the
\* frame, the acceleration and the quaternion are those of that acquisition.
C21_LastWriteWins ==
    \A i \in Tasks : Published(i) =>
        /\ frameRaw = acq[i].n
        /\ acceleration.src = acq[i].n
        /\ quaternion.src = acq[i].n

\* C22: the sensor never connects (the IMU steps are not part of Next):
\* acquisition proceeds, and every unit an acquisition task has published,
\* and every log line the persistence stage has written, carries the zero
\* acceleration and the zero quaternion.
C22_ZerosWithoutSensor ==
    /\ ~imuConnected
    /\ \A i \in Tasks :
          /\ Published(i) => acceleration.val = "zero" /\ quaternion.val = "zero"
          /\ sav[i].log => sav[i].acc.val = "zero" /\ sav[i].quat.val = "zero"

\* A unit was published and its log line and image were written, without IMU.
C22_Witness ==
    \E i \in Tasks : /\ ~imuConnected /\ seq > 0 /\ logLines > 0
                     /\ sav[i].log /\ sav[i].img /\ sav[i].acc.src = sav[i].frame

\* C23: a value the sensor has not yet produced is handled as the zero
\* vector: no published unit has an absent acceleration or quaternion, and
\* no unit handed to record() for its log line has one (so that the write
\* does not fail on it).
C23_AbsentValueIsZero ==
    \A i \in Tasks :
        /\ Published(i) => acceleration.val # "absent" /\ quaternion.val # "absent"
        /\ sav[i].pc = "log" => sav[i].acc.val # "absent" /\ sav[i].quat.val # "absent"

\* C24: a slow consumer never throttles the producer: whenever the source is
\* connected, a running acquisition task can take its next step, whatever
\* the preparation and persistence tasks are doing and whatever the two
\* request flags hold.
C24_ProducerNeverBlocked ==
    \A i \in Tasks : (isConnected /\ acq[i].pc # "off") => ENABLED getFramesThread(i)

\* Acquisition is about to raise the save request for its second frame while
\* both requests of the first are still raised and both consumers are idle.
C24_Witness ==
    \E i \in Tasks : /\ isConnected /\ saveFrame /\ resizeFrame
                     /\ acq[i].pc = "raise" /\ acq[i].n = MaxAcq
                     /\ sav[i].pc = "check" /\ rsz[i].pc = "check"

\* C25: after the source has disconnected, each of the three stages reports
\* rate 0 as its final rate signal: a stage task that ends while the source
\* is disconnected has sent rate 0 after its loop.
C25_FinalRateZero ==
    [][\A i \in Tasks :
          /\ (Ends(acq, i) /\ ~isConnected) => acq'[i].bye = "rate 0"
          /\ (Ends(rsz, i) /\ ~isConnected) => rsz'[i].bye = "rate 0"
          /\ (Ends(sav, i) /\ ~isConnected) => sav'[i].bye = "rate 0"]_vars

\* C26: acquisition raises no save request while the one raised before is
\* still unconsumed: the step that sets saveFrame finds it cleared.
C26_NoRequestOverUnconsumed ==
    [][\A i \in Tasks : RaisesSave(i) => ~saveFrame]_vars

\* C27: a zero elapsed time gives the saturating rate, never a division
\* error or a negative rate: the acquisition rate is 100 for a zero
\* difference and never negative, and the preparation stage, computing its
\* rate after resizing a frame that is there, is not ended by an error.
C27_ZeroElapsedSaturates ==
    /\ \A dt \in ElapsedTimes : SignalRate(dt) >= 0 /\ (dt = 0 => SignalRate(dt) = 100)
    /\ [][\A i \in Tasks :
            (rsz[i].pc = "resize" /\ ResizeFrameOk(frameRaw)) => rsz'[i].pc # "off"]_vars

C29_OneRateSignalPerIteration ==
    [][\A i \in Tasks :
          (acq[i].pc \notin {"off", "check"} /\ acq'[i].pc = "check") => acq[i].sig = 1]_vars

\* C30: each tick of the preparation stage does one of two things.  If the
\* display request is raised the tick clears it and emits one preview,
\* built from the frame in the slot at that moment, and one rate signal,
\* and the task is back at the top of its loop; otherwise the tick emits
\* rate 0, touches neither the request nor the slot, and the task is back
\* at the top of its loop.
C30_PreparationTick ==
    [][\A i \in Tasks :
          /\ (rsz[i].pc = "test" /\ rsz'[i] # rsz[i])
                => /\ rsz'[i].pc = IF resizeFrame THEN "clear" ELSE "check"
                   /\ UNCHANGED <<resizeFrame, frameRaw>>
          /\ (rsz[i].pc = "clear" /\ rsz'[i] # rsz[i])
                => rsz'[i].pc = "resize" /\ ~resizeFrame'
          /\ (rsz[i].pc = "resize" /\ rsz'[i] # rsz[i])
                => rsz'[i].pc = "check"]_vars

\* C31: each honoured save request increments the frame counter by exactly
\* one (the step that stores the counter leaves it one higher than it was),
\* and within a session the k-th frame written to the log is named with
\* counter k (the name carries the counter read before the increment).
C31_CounterNamesFrames ==
    [][\A i \in Tasks :
          /\ StoresCounter(i) => frameGrabCounter' = frameGrabCounter + 1
          /\ WritesLog(i) => sav[i].name = logLines + 1]_vars

\* Steps of the request flags, recognised by the position they leave.
RaisesResize(i) == acq[i].pc = "show" /\ acq'[i].pc # "show"
ClearsSave(i) == sav[i].pc = "clear" /\ sav'[i].pc # "clear"
ClearsResize(i) == rsz[i].pc = "clear" /\ rsz'[i].pc # "clear"

C33_NoStaleRequestHonoured ==
    [][/\ \A i \in Tasks : ClearsSave(i) => ~HandleClosed
       /\ (~enableRecording /\ enableRecording') => ~saveFrame]_vars

\* C34: at most one session log handle is open at any time.  Outside
\* toggleRecording the handle is open exactly when recording is on; a step
\* that replaces the handle finds the old one closed and opens the handle
\* of the session just created; a handle is opened only by replacing the
\* old one (a closed handle is not reopened); and the step that closes a
\* handle closes the one the last start opened.
C34_OneOpenHandle ==
    /\ [](ctl = "idle" => (currentDataFile.open <=> enableRecording))
    /\ [][/\ (currentDataFile'.id # currentDataFile.id)
              => (~currentDataFile.open /\ currentDataFile' = [id |-> sessions, open |-> TRUE])
          /\ (~currentDataFile.open /\ currentDataFile'.open)
              => currentDataFile'.id # currentDataFile.id
          /\ (currentDataFile.open /\ ~currentDataFile'.open)
              => (currentDataFile'.id = currentDataFile.id /\ currentDataFile.id = currentRecordingPath)]_vars

\* The second recording is under way: its handle is the open one.
C34_Witness ==
    /\ ctl = "idle" /\ enableRecording
    /\ currentDataFile = [id |-> MaxSessions, open |-> TRUE]

C36_HandleOpenWhileTesting ==
    /\ [](tester.testing <=> tester.drainTestsFile = "open")
    /\ [][/\ (~tester.testing /\ tester'.testing)
              => (tester'.drainTestsFile = "open" /\ tester'.imuTestCounter = 0
                  /\ tester'.summaryLines = 0)
          /\ (tester.testing /\ ~tester'.testing)
              => (tester'.drainTestsFile = "None"
                  /\ tester'.summaryLines = tester.summaryLines + 1)
          /\ (tester'.drainTestsFile # tester.drainTestsFile)
              => tester'.testing # tester.testing]_vars

\* The second test is running after messages were counted in the first.
C36_Witness ==
    /\ tester.testing /\ tester.tests = MaxTests /\ tester.drainTestsFile = "open"
    /\ tester.imuTestCounter > 0


\* C37: in the battery-life tester the message counter increases only in the
\* handling of a quaternion message, and that handling moves it up by exactly
\* one from the value it had and sets the last-message time to the current
\* time; the handling of an acceleration or an angle message leaves the
\* counter and the last-message time as they were.
C37_CounterCountsQuaternions ==
    [][/\ (tester'.imuTestCounter > tester.imuTestCounter) =>
              (tester.cb = "store" /\ tester'.cb = "idle")
       /\ (tester.cb = "store" /\ tester'.cb = "idle") =>
              (tester'.imuTestCounter = tester.imuTestCounter + 1)
       /\ (tester.cb = "time" /\ tester'.cb = "load") =>
              (tester'.testLastMessageTime = tester.now)
       /\ (/\ tester.cb = "idle" /\ tester'.cb = "idle"
           /\ tester'.testing = tester.testing) =>
              (/\ tester'.imuTestCounter = tester.imuTestCounter
               /\ tester'.testLastMessageTime = tester.testLastMessageTime)]_vars


============================================================================
